---- MODULE Spec2Model ----
(***************************************************************************)
(* State-machine model of DatabaseConnection (the pooled PostgreSQL        *)
(* connection manager) and of the module-level poolCache it shares.        *)
(*                                                                         *)
(* Every public method is one action.  A method body is computed by        *)
(* operators over a "world" record W that holds the program state plus a   *)
(* log of what the call did (statements issued, checkouts, releases); an   *)
(* operator that can end in more than one way returns the set of its       *)
(* possible results.  The pg driver (Pool, PoolClient) is the environment: *)
(* a checkout, a statement or a callback may succeed or fail.              *)
(***************************************************************************)
EXTENDS Naturals, Sequences, FiniteSets

VARIABLES poolCache, pools, sessions, pool, client, currentConnectionString,
          connectionOptions, lastError, pc, last

vars == <<poolCache, pools, sessions, pool, client, currentConnectionString,
          connectionOptions, lastError, pc, last>>

\* ------------------------------------------------------------------ bounds
NumConns == 1
MaxPools == 2
MaxSessions == 2

Conns == 1..NumConns
PoolIds == 1..MaxPools
SessionIds == 1..MaxSessions
Targets == {"A", "B"}

\* ------------------------------------------------------------------ errors
\* An Error value: where it was raised ("op": by a checkout, a statement or
\* the callback in the body of a call; "rollback": by the ROLLBACK of the
\* catch handler; "pool": emitted by a Pool) and what its message says.
\* kind "terminated": the message includes 'Connection terminated' or
\* 'connection closed'; kind "fatal": it includes 'terminating connection due
\* to administrator command' or 'SSL connection has been closed unexpectedly'.
Err(src, kind) == [src |-> src, kind |-> kind]
NoErr == Err("none", "none")

\* error.message.includes('Connection terminated') || ...includes('connection closed')
IsTerminated(e) == e.kind = "terminated"

\* err.message.includes('terminating connection due to administrator command') || ...
IsFatal(e) == e.kind = "fatal"

\* ------------------------------------------------------------------ world
\* what a call did, in order: each checkout (res: the session was "live" or
\* "dead" when handed out, or the checkout was "rejected"), each release (res:
\* the session went "idle" or was "closed") and each statement (res: "ok", or
\* the kind of the error it raised); and the Pools it created, ended, evicted
Ev(k, s, q, res) == [k |-> k, s |-> s, q |-> q, res |-> res]
EmptyLog == [events |-> << >>, newPools |-> {}, ended |-> {}, evicted |-> {}]
Note(W, e) == [W EXCEPT !.log.events = Append(@, e)]

World == [poolCache |-> poolCache, pools |-> pools, sessions |-> sessions,
          pool |-> pool, client |-> client,
          currentConnectionString |-> currentConnectionString,
          connectionOptions |-> connectionOptions, lastError |-> lastError,
          log |-> EmptyLog]

\* the result of a step that may throw
Ok(W) == [w |-> W, ok |-> TRUE, err |-> NoErr]
Throw(W, e) == [w |-> W, ok |-> FALSE, err |-> e]

\* R is a set of results; continue each normal one with F, keep each throw
Bind(R, F(_)) == UNION {IF r.ok THEN F(r.w) ELSE {r} : r \in R}

\* ------------------------------------------------------------------ pg Pool
NoSession == [pool |-> 0, st |-> "unused", dead |-> FALSE]
UnusedPools == {p \in PoolIds : pools[p].state = "unused"}
UnusedSessions(W) == {s \in SessionIds : W.sessions[s].st = "unused"}
Idle(W, p) == {s \in SessionIds : W.sessions[s].pool = p /\ W.sessions[s].st = "idle"}
Min(S) == CHOOSE x \in S : \A y \in S : x <= y

\* what pool.connect() can hand out: 0 is a rejection (timeout, refusal, or
\* the pool was ended); otherwise an idle session, or a new one if none is idle
CheckoutChoices(W, p) ==
  IF W.pools[p].state # "open" THEN {0}
  ELSE {0} \cup (IF Idle(W, p) # {} THEN Idle(W, p)
                 ELSE IF UnusedSessions(W) # {} THEN {Min(UnusedSessions(W))}
                 ELSE {})

\* this.client = await this.pool.connect()   (of connection c)
PoolConnect(W, c) ==
  { IF s = 0
      THEN Throw(Note(W, Ev("checkout", 0, "", "rejected")), Err("op", "other"))
      ELSE Ok(Note([W EXCEPT !.client[c] = s,
                             !.sessions[s] = [pool |-> W.pool[c], st |-> "out",
                                              dead |-> W.sessions[s].dead]],
                   Ev("checkout", s, "", IF W.sessions[s].dead THEN "dead" ELSE "live")))
    : s \in CheckoutChoices(W, W.pool[c]) }

\* where a released session can go.  release() is called without the destroy
\* argument: a usable session goes back to the idle set; a pool that was ended
\* closes it; a session whose transport is closed is either kept idle or
\* closed, depending on the driver.
ReleaseChoices(W, s) ==
  IF W.pools[W.sessions[s].pool].state = "ended" THEN {"closed"}
  ELSE IF W.sessions[s].dead THEN {"idle", "closed"}
  ELSE {"idle"}

\* client.release(); a closed session no longer exists
ClientRelease(W, s) ==
  { Note([W EXCEPT !.sessions[s] = IF to = "idle" THEN [@ EXCEPT !.st = "idle"]
                                   ELSE NoSession],
         Ev("release", s, "", to))
    : to \in ReleaseChoices(W, s) }

\* pool.end(): rejects when the pool was already ended; otherwise closes the
\* idle sessions, and the checked-out ones are closed when they are released
PoolEnd(W, p) ==
  IF W.pools[p].state = "ended" THEN W
  ELSE [W EXCEPT !.pools[p].state = "ended",
                 !.sessions = [s \in SessionIds |->
                    IF @[s].pool = p /\ @[s].st = "idle" THEN NoSession ELSE @[s]],
                 !.log.ended = @ \cup {p}]

\* how a statement on session s can end: it succeeds, it fails with an
\* ordinary error, or the transport closes under it; a session whose
\* transport is closed fails every statement
StmtChoices(W, s) ==
  IF W.sessions[s].dead THEN {"fail", "term"} ELSE {"ok", "fail", "term"}

\* await client.query(text)
ClientQuery(W, s, text) ==
  { LET src == IF text = "ROLLBACK" THEN "rollback" ELSE "op"
    IN CASE o = "ok" -> Ok(Note(W, Ev("stmt", s, text, "ok")))
         [] o = "fail" -> Throw(Note(W, Ev("stmt", s, text, "other")), Err(src, "other"))
         [] OTHER -> Throw(Note([W EXCEPT !.sessions[s].dead = TRUE],
                                Ev("stmt", s, text, "terminated")),
                           Err(src, "terminated"))
    : o \in StmtChoices(W, s) }

\* ------------------------------------------------------------------ disconnect
\* if (this.client) { this.client.release(); this.client = null; }
ReleaseHeld(W, c) ==
  IF W.client[c] # 0
    THEN {[V EXCEPT !.client[c] = 0] : V \in ClientRelease(W, W.client[c])}
    ELSE {W}

\* a bug: the target is kept
DisconnectBody_KeepTarget(W, c) == ReleaseHeld(W, c)

\* DatabaseConnection.disconnect
DisconnectBody(W, c) ==
  {[V EXCEPT !.currentConnectionString[c] = ""] : V \in ReleaseHeld(W, c)}

\* ------------------------------------------------------------------ connect
\* client.ended
Ended(W, s) == W.sessions[s].dead

\* poolCache.has(t)
CacheHas(W, t) == t \in Targets /\ W.poolCache[t] # 0

\* poolCache.delete(t)
CacheDelete(W, t) ==
  IF CacheHas(W, t)
    THEN [W EXCEPT !.poolCache[t] = 0, !.log.evicted = @ \cup {W.poolCache[t]}]
    ELSE W

\* new Pool(config); this.pool.on('error', ...); poolCache.set(t, this.pool)
NewPool(W, c, t) ==
  LET p == Min({q \in PoolIds : W.pools[q].state = "unused"})
  IN [W EXCEPT !.pools[p] = [target |-> t, state |-> "open", creator |-> c],
               !.pool[c] = p,
               !.poolCache[t] = p,
               !.log.newPools = @ \cup {p}]

\* a bug: a new Pool at every connect, whatever the cache holds
GetOrCreatePool_Fresh(W, c, t) ==
  IF \E q \in PoolIds : W.pools[q].state = "unused"
    THEN NewPool(W, c, t) ELSE [W EXCEPT !.pool[c] = W.poolCache[t]]

\* lines 51-76: take the cached Pool of t, or create and cache one
GetOrCreatePool(W, c, t) ==
  IF CacheHas(W, t) THEN [W EXCEPT !.pool[c] = W.poolCache[t]] ELSE NewPool(W, c, t)

\* line 37
SameTarget(W, c, t) == W.pool[c] # 0 /\ W.currentConnectionString[c] = t

\* a bug: a session is checked out at every connect to the known target
NeedsClient_Always(W, c) == TRUE

\* line 38
NeedsClient(W, c) == W.client[c] = 0 \/ Ended(W, W.client[c])

\* lines 44-46
DisconnectOld(W, c) == IF W.pool[c] # 0 THEN DisconnectBody(W, c) ELSE {W}

\* lines 80-83: the statement timeout, then the liveness probe
SetupAndProbe(W, c, o) ==
  LET R == IF o THEN ClientQuery(W, W.client[c], "SET statement_timeout") ELSE {Ok(W)}
  IN Bind(R, LAMBDA V : ClientQuery(V, V.client[c], "SELECT 1"))

\* the try block, lines 36-83
ConnectTry(W, c, t, o) ==
  IF SameTarget(W, c, t)
    THEN IF NeedsClient(W, c) THEN PoolConnect(W, c) ELSE {Ok(W)}
    ELSE UNION {
      LET V1 == [V EXCEPT !.currentConnectionString[c] = t,
                          !.connectionOptions[c] = o]
          V2 == GetOrCreatePool(V1, c, t)
      IN Bind(PoolConnect(V2, c), LAMBDA X : SetupAndProbe(X, c, o))
      : V \in DisconnectOld(W, c) }

\* line 90
NewPoolIsBroken(W, c) ==
  W.pool[c] # 0 /\ ~CacheHas(W, W.currentConnectionString[c])

\* lines 90-94
EvictBroken(W, c) ==
  IF NewPoolIsBroken(W, c)
    THEN [PoolEnd(CacheDelete(W, W.currentConnectionString[c]), W.pool[c])
            EXCEPT !.pool[c] = 0]
    ELSE W

\* a bug: the catch block leaves the session held
ConnectCatch_NoRelease(W, c, e) ==
  {Throw(EvictBroken([W EXCEPT !.lastError[c] = e], c), e)}

\* the catch block, lines 84-96
ConnectCatch(W, c, e) ==
  {Throw(EvictBroken(V, c), e) : V \in ReleaseHeld([W EXCEPT !.lastError[c] = e], c)}

\* DatabaseConnection.connect(connectionString, options); o is whether
\* options.statementTimeout is set
ConnectBody(W, c, t, o) ==
  IF t = "" THEN {[w |-> W, result |-> "InvalidArgument", cause |-> NoErr]}
  ELSE UNION {
    IF r.ok THEN {[w |-> r.w, result |-> "ok", cause |-> NoErr]}
    ELSE {[w |-> x.w, result |-> "ConnectFailed", cause |-> x.err]
           : x \in ConnectCatch(r.w, c, r.err)}
    : r \in ConnectTry(W, c, t, o) }

\* ------------------------------------------------------------------ query
\* lines 113 and 172: nothing to re-acquire a session from
NotConnected(W, c) == W.pool[c] = 0 \/ W.currentConnectionString[c] = ""

\* lines 117-121 and 176-180: check a session out again and set its timeout
Reacquire(W, c) ==
  Bind(PoolConnect(W, c),
       LAMBDA V : IF V.connectionOptions[c]
                    THEN ClientQuery(V, V.client[c], "SET statement_timeout")
                    ELSE {Ok(V)})

\* lines 112-126 and 171-185: the result is "ok" when a session is held
EnsureClient(W, c) ==
  IF W.client[c] # 0 THEN {[w |-> W, result |-> "ok", cause |-> NoErr]}
  ELSE IF NotConnected(W, c) THEN {[w |-> W, result |-> "NotConnected", cause |-> NoErr]}
  ELSE { IF r.ok THEN [w |-> r.w, result |-> "ok", cause |-> NoErr]
         ELSE [w |-> [r.w EXCEPT !.lastError[c] = r.err],
               result |-> "ReacquireFailed", cause |-> r.err]
         : r \in Reacquire(W, c) }

\* a bug: the session is released after every error
DropIfTerminated_Always(W, c, e, s) ==
  IF W.client[c] = s /\ s # 0 THEN ReleaseHeld(W, c) ELSE {W}

\* lines 137-142 and 196-201: release the session of a closed transport
DropIfTerminated(W, c, e, s) ==
  IF IsTerminated(e) /\ W.client[c] = s /\ s # 0 THEN ReleaseHeld(W, c) ELSE {W}

\* lines 135-144
QueryCatch(W, c, e) ==
  { [w |-> V, result |-> "QueryFailed", cause |-> e]
    : V \in DropIfTerminated([W EXCEPT !.lastError[c] = e], c, e, W.client[c]) }

\* lines 128-144
QueryRun(W, c) ==
  UNION { IF r.ok THEN {[w |-> r.w, result |-> "ok", cause |-> NoErr]}
          ELSE QueryCatch(r.w, c, r.err)
          : r \in ClientQuery(W, W.client[c], "query") }

\* DatabaseConnection.query
QueryBody(W, c) ==
  UNION { IF x.result = "ok" THEN QueryRun(x.w, c) ELSE {x} : x \in EnsureClient(W, c) }

\* ------------------------------------------------------------------ transaction
\* await callback(dedicatedClient): the callback returns, throws an ordinary
\* error, throws because the transport closed under it ("term"), or throws
\* an error whose message says so while the session is still usable
CallbackChoices == {"ok", "fail", "term", "termLive"}

Callback(W, s) ==
  { CASE o = "ok" -> Ok(Note(W, Ev("stmt", s, "callback", "ok")))
      [] o = "fail" -> Throw(Note(W, Ev("stmt", s, "callback", "other")), Err("op", "other"))
      [] o = "term" -> Throw(Note([W EXCEPT !.sessions[s].dead = TRUE],
                                  Ev("stmt", s, "callback", "terminated")),
                             Err("op", "terminated"))
      [] OTHER -> Throw(Note(W, Ev("stmt", s, "callback", "terminated")),
                        Err("op", "terminated"))
    : o \in CallbackChoices }

\* a bug: the COMMIT is left out
TransactionTry_NoCommit(W, s) ==
  Bind(ClientQuery(W, s, "BEGIN"), LAMBDA V : Callback(V, s))

\* lines 189-192
TransactionTry(W, s) ==
  Bind(ClientQuery(W, s, "BEGIN"),
       LAMBDA V : Bind(Callback(V, s), LAMBDA X : ClientQuery(X, s, "COMMIT")))

\* lines 193-203; an error of the ROLLBACK leaves the handler at once
TransactionCatch(W, c, s, e) ==
  UNION { IF r.ok
            THEN { [w |-> V, result |-> "TransactionFailed", cause |-> e]
                   : V \in DropIfTerminated([r.w EXCEPT !.lastError[c] = e], c, e, s) }
            ELSE {[w |-> r.w, result |-> "raw", cause |-> r.err]}
          : r \in ClientQuery(W, s, "ROLLBACK") }

\* lines 187-203
TransactionRun(W, c) ==
  UNION { IF r.ok THEN {[w |-> r.w, result |-> "ok", cause |-> NoErr]}
          ELSE TransactionCatch(r.w, c, W.client[c], r.err)
          : r \in TransactionTry(W, W.client[c]) }

\* DatabaseConnection.transaction
TransactionBody(W, c) ==
  UNION { IF x.result = "ok" THEN TransactionRun(x.w, c) ELSE {x} : x \in EnsureClient(W, c) }

\* ------------------------------------------------------------------ pool 'error'
\* lines 66-73, run on the Connection that created the Pool
EvictOnFatal(W, c) ==
  LET V == CacheDelete(W, W.currentConnectionString[c])
  IN IF V.pool[c] # 0 THEN [PoolEnd(V, V.pool[c]) EXCEPT !.pool[c] = 0] ELSE V

\* a bug: every pool error evicts
PoolErrorBody_AlwaysEvict(W, p, s, e) ==
  EvictOnFatal([W EXCEPT !.sessions[s] = NoSession,
                         !.lastError[W.pools[p].creator] = e], W.pools[p].creator)

\* the handler of lines 63-74 for Pool p, which emits e for its idle session s;
\* the Pool has dropped s before it emits
PoolErrorBody(W, p, s, e) ==
  LET c == W.pools[p].creator
      V == [W EXCEPT !.sessions[s] = NoSession, !.lastError[c] = e]
  IN IF IsFatal(e) THEN EvictOnFatal(V, c) ELSE V

\* ------------------------------------------------------------------ cleanupPools
RECURSIVE EndAll(_, _)
\* lines 228-236, over the targets ts still to visit: an entry is deleted
\* only when its pool.end() did not reject
EndAll(W, ts) ==
  IF ts = {} THEN W
  ELSE LET t == CHOOSE x \in ts : TRUE
           p == W.poolCache[t]
           V == IF W.pools[p].state = "ended" THEN W ELSE CacheDelete(PoolEnd(W, p), t)
       IN EndAll(V, ts \ {t})

\* DatabaseConnection.cleanupPools
CleanupBody(W) == EndAll(W, {t \in Targets : W.poolCache[t] # 0})

\* ------------------------------------------------------------------ actions
\* the program state after a call, or a step of one, that ended as out; last
\* records the call: its Connection c (0: none), the target it was given or
\* the Pool p that emitted, whether its options set statementTimeout (o), how
\* it ended (result, cause) and what it did (log)
Apply(op, c, t, p, o, out) ==
  /\ poolCache' = out.w.poolCache
  /\ pools' = out.w.pools
  /\ sessions' = out.w.sessions
  /\ pool' = out.w.pool
  /\ client' = out.w.client
  /\ currentConnectionString' = out.w.currentConnectionString
  /\ connectionOptions' = out.w.connectionOptions
  /\ lastError' = out.w.lastError
  /\ last' = [op |-> op, conn |-> c, target |-> t, pool |-> p, opt |-> o,
              result |-> out.result, cause |-> out.cause, log |-> out.w.log]

\* a call that runs from its start to its end with no other call in between
FinishOpt(op, c, t, p, o, out) == Apply(op, c, t, p, o, out) /\ pc' = pc

Finish(op, c, t, p, out) == FinishOpt(op, c, t, p, FALSE, out)

Done(W) == [w |-> W, result |-> "ok", cause |-> NoErr]

\* where a Connection's connect call stands (at) and whether the options it
\* was given set statementTimeout (opt); "idle": no call of it is in progress
NotCalling == [at |-> "idle", opt |-> FALSE]

\* before any call
NoCall == [op |-> "init", conn |-> 0, target |-> "", pool |-> 0, opt |-> FALSE,
           result |-> "ok", cause |-> NoErr, log |-> EmptyLog]

\* a new Pool needs an identifier of the model
CanCreate(t) == IF t = "" THEN TRUE ELSE (poolCache[t] # 0 \/ UnusedPools # {})

Connect(c, t, o) ==
  /\ CanCreate(t)
  /\ \E out \in ConnectBody(World, c, t, o) : FinishOpt("connect", c, t, 0, o, out)

Disconnect(c) ==
  \E W \in DisconnectBody(World, c) : Finish("disconnect", c, "", 0, Done(W))

Query(c) ==
  \E out \in QueryBody(World, c) : Finish("query", c, "", 0, out)

Transaction(c) ==
  \E out \in TransactionBody(World, c) : Finish("transaction", c, "", 0, out)

\* a Pool emits 'error' for one of its idle sessions
PoolError(p, kind) ==
  /\ pools[p].state = "open"
  /\ \E s \in Idle(World, p) :
       Finish("poolError", pools[p].creator, pools[p].target, p,
              [w |-> PoolErrorBody(World, p, s, Err("pool", kind)),
               result |-> "ok", cause |-> Err("pool", kind)])

CleanupPools == Finish("cleanupPools", 0, "", 0, Done(CleanupBody(World)))

\* the server or the network closes the transport of a checked-out session
SessionLost(s) ==
  /\ sessions[s].st = "out" /\ ~sessions[s].dead
  /\ Finish("sessionLost", 0, "", 0, Done([World EXCEPT !.sessions[s].dead = TRUE]))

Init ==
  /\ poolCache = [t \in Targets |-> 0]
  /\ pools = [p \in PoolIds |-> [target |-> "", state |-> "unused", creator |-> 0]]
  /\ sessions = [s \in SessionIds |-> NoSession]
  /\ pool = [c \in Conns |-> 0]
  /\ client = [c \in Conns |-> 0]
  /\ currentConnectionString = [c \in Conns |-> ""]
  /\ connectionOptions = [c \in Conns |-> FALSE]
  /\ lastError = [c \in Conns |-> NoErr]
  /\ pc = [c \in Conns |-> NotCalling]
  /\ last = NoCall

Next ==
  \/ \E c \in Conns, t \in Targets \cup {""}, o \in BOOLEAN : Connect(c, t, o)
  \/ \E c \in Conns : Disconnect(c)
  \/ \E c \in Conns : Query(c)
  \/ \E c \in Conns : Transaction(c)
  \/ \E p \in PoolIds, kind \in {"other", "fatal"} : PoolError(p, kind)
  \/ CleanupPools
  \/ \E s \in SessionIds : SessionLost(s)

Spec == Init /\ [][Next]_vars

\* ------------------------------------------------------------------ sharing
\* Connections that share the poolCache: one more than in Spec, calling
\* connect, disconnect and query on one target in any order, with no Pool
\* emitting a fatal error and no cleanupPools
SharedConns == 1..(NumConns + 1)

InitShared ==
  /\ poolCache = [t \in Targets |-> 0]
  /\ pools = [p \in PoolIds |-> [target |-> "", state |-> "unused", creator |-> 0]]
  /\ sessions = [s \in SessionIds |-> NoSession]
  /\ pool = [c \in SharedConns |-> 0]
  /\ client = [c \in SharedConns |-> 0]
  /\ currentConnectionString = [c \in SharedConns |-> ""]
  /\ connectionOptions = [c \in SharedConns |-> FALSE]
  /\ lastError = [c \in SharedConns |-> NoErr]
  /\ pc = [c \in SharedConns |-> NotCalling]
  /\ last = NoCall

NextShared ==
  \/ \E c \in SharedConns, o \in BOOLEAN : Connect(c, "A", o)
  \/ \E c \in SharedConns : Disconnect(c)
  \/ \E c \in SharedConns : Query(c)
  \/ \E p \in PoolIds : PoolError(p, "other")

SpecShared == InitShared /\ [][NextShared]_vars

\* ------------------------------------------------------------------ concurrent connect
\* Two Connections call connect("A") at the same time.  A call runs without
\* interruption from one await to the next, and any other call may run at an
\* await: await this.disconnect() (line 45), await this.pool.connect()
\* (line 78), and the two awaited statements (lines 81 and 83).  "A" is not
\* cached at the start; a Connection starts either new or connected to "B".
ConcTarget == "A"

\* the state in which the Connections of K are connected to "B" through one
\* cached Pool, each holding a session, and the others are new
ConnectedToB(K) ==
  LET sid(c) == Cardinality({d \in K : d <= c})
  IN /\ poolCache = [t \in Targets |-> IF t = "B" /\ K # {} THEN 1 ELSE 0]
     /\ pools = [p \in PoolIds |->
                   IF p = 1 /\ K # {}
                     THEN [target |-> "B", state |-> "open", creator |-> Min(K)]
                     ELSE [target |-> "", state |-> "unused", creator |-> 0]]
     /\ sessions = [s \in SessionIds |->
                      IF s <= Cardinality(K)
                        THEN [pool |-> 1, st |-> "out", dead |-> FALSE] ELSE NoSession]
     /\ pool = [c \in SharedConns |-> IF c \in K THEN 1 ELSE 0]
     /\ client = [c \in SharedConns |-> IF c \in K THEN sid(c) ELSE 0]
     /\ currentConnectionString = [c \in SharedConns |-> IF c \in K THEN "B" ELSE ""]

InitConc ==
  /\ \E K \in SUBSET SharedConns : ConnectedToB(K)
  /\ connectionOptions = [c \in SharedConns |-> FALSE]
  /\ lastError = [c \in SharedConns |-> NoErr]
  /\ pc = [c \in SharedConns |-> NotCalling]
  /\ last = NoCall

\* lines 48-78, up to the call of this.pool.connect()
TakePool(W, c, o) ==
  GetOrCreatePool([W EXCEPT !.currentConnectionString[c] = ConcTarget,
                            !.connectionOptions[c] = o], c, ConcTarget)

\* a step of the call of Connection c that leaves it at position at
ConcStep(c, at, o, W, result, cause) ==
  /\ Apply("connect", c, ConcTarget, 0, o, [w |-> W, result |-> result, cause |-> cause])
  /\ pc' = [pc EXCEPT ![c] = [at |-> at, opt |-> o]]

\* the awaited promise r has settled: go on at position at, or run the catch
\* block of lines 84-96
ConcSettle(c, r, at) ==
  IF r.ok THEN ConcStep(c, at, pc[c].opt, r.w, "pending", NoErr)
  ELSE \E x \in ConnectCatch(r.w, c, r.err) :
         ConcStep(c, "failed", pc[c].opt, x.w, "ConnectFailed", x.err)

\* connect(ConcTarget, options) is called: lines 31-45 when the Connection has
\* a Pool (it then waits at line 45), lines 31-78 when it has none
ConcStart(c, o) ==
  /\ pc[c].at = "idle" /\ ~SameTarget(World, c, ConcTarget)
  /\ IF pool[c] # 0
       THEN \E W \in DisconnectBody(World, c) : ConcStep(c, "disconnected", o, W, "pending", NoErr)
       ELSE ConcStep(c, "checkout", o, TakePool(World, c, o), "pending", NoErr)

\* the call goes on after await this.disconnect(): lines 48-78
ConcResume(c) ==
  /\ pc[c].at = "disconnected"
  /\ ConcStep(c, "checkout", pc[c].opt, TakePool(World, c, pc[c].opt), "pending", NoErr)

\* this.pool.connect() of line 78 settles
ConcCheckout(c) ==
  /\ pc[c].at = "checkout"
  /\ \E r \in PoolConnect(World, c) :
       ConcSettle(c, r, IF pc[c].opt THEN "set" ELSE "probe")

\* the SET statement_timeout of line 81 settles
ConcSet(c) ==
  /\ pc[c].at = "set"
  /\ \E r \in ClientQuery(World, client[c], "SET statement_timeout") :
       ConcSettle(c, r, "probe")

\* the SELECT 1 of line 83 settles
ConcProbe(c) ==
  /\ pc[c].at = "probe"
  /\ \E r \in ClientQuery(World, client[c], "SELECT 1") :
       IF r.ok THEN ConcStep(c, "done", pc[c].opt, r.w, "ok", NoErr)
       ELSE ConcSettle(c, r, "done")

NextConc ==
  \/ \E c \in SharedConns, o \in BOOLEAN : ConcStart(c, o)
  \/ \E c \in SharedConns : ConcResume(c)
  \/ \E c \in SharedConns : ConcCheckout(c)
  \/ \E c \in SharedConns : ConcSet(c)
  \/ \E c \in SharedConns : ConcProbe(c)

SpecConc == InitConc /\ [][NextConc]_vars

\* ------------------------------------------------------------------ analyzeDatabaseLogic
\* Runs of analyzeDatabaseLogic, one per Connection (each run creates its
\* own DatabaseConnection), going on side by side: a run gives way to the
\* others between its calls of the Connection's methods.  Pools emit errors
\* and transports close while the runs go on.

\* the db.query calls of getVersion, getSettings and getMetrics, in order
AnalysisQueries ==
  <<"version", "settings", "connections", "activeQueries", "cacheHit", "tableSizes">>

\* the db.query calls that generateRecommendations adds for type 'security';
\* the last one is inside a try/catch that swallows its error
SecurityQueries == <<"superusers", "ssl_is_used">>

QueriesOf(sec) == IF sec THEN AnalysisQueries \o SecurityQueries ELSE AnalysisQueries

\* where a run stands: before its start ("idle"), about to make its n-th
\* query, in the finally block on its way to return or throw (how), or ended
\* ("returned", "thrown"); opt: the analysis type is 'security'
RunAt(at, sec, n, how) == [at |-> at, opt |-> sec, n |-> n, how |-> how]

InitAnalyze ==
  /\ poolCache = [t \in Targets |-> 0]
  /\ pools = [p \in PoolIds |-> [target |-> "", state |-> "unused", creator |-> 0]]
  /\ sessions = [s \in SessionIds |-> NoSession]
  /\ pool = [c \in SharedConns |-> 0]
  /\ client = [c \in SharedConns |-> 0]
  /\ currentConnectionString = [c \in SharedConns |-> ""]
  /\ connectionOptions = [c \in SharedConns |-> FALSE]
  /\ lastError = [c \in SharedConns |-> NoErr]
  /\ pc = [c \in SharedConns |-> RunAt("idle", FALSE, 0, "")]
  /\ last = NoCall

\* lines 40-41: const db = new DatabaseConnection(); await db.connect(...),
\* outside the try block: when connect throws, the run ends at once
AnalyzeConnect(c, t, sec) ==
  /\ pc[c].at = "idle"
  /\ CanCreate(t)
  /\ \E out \in ConnectBody(World, c, t, FALSE) :
       /\ Apply("connect", c, t, 0, FALSE, out)
       /\ pc' = [pc EXCEPT ![c] = IF out.result = "ok"
                                    THEN RunAt("query", sec, 1, "")
                                    ELSE RunAt("thrown", sec, 0, "connect")]

\* lines 43-47: the next db.query of the try block.  An error ends the block
\* and goes to finally, except the error of ssl_is_used, which is caught
AnalyzeQuery(c) ==
  /\ pc[c].at = "query"
  /\ LET qs == QueriesOf(pc[c].opt)
         n == pc[c].n
     IN \E out \in QueryBody(World, c) :
          /\ Apply("query", c, "", 0, FALSE, out)
          /\ pc' = [pc EXCEPT ![c] =
                      IF out.result # "ok" /\ qs[n] # "ssl_is_used"
                        THEN RunAt("finally", pc[c].opt, n, "throw")
                      ELSE IF n = Len(qs) THEN RunAt("finally", pc[c].opt, n, "return")
                      ELSE RunAt("query", pc[c].opt, n + 1, "")]

\* lines 55-57: finally { await db.disconnect(); }
AnalyzeFinally(c) ==
  /\ pc[c].at = "finally"
  /\ \E W \in DisconnectBody(World, c) :
       /\ Apply("disconnect", c, "", 0, FALSE, Done(W))
       /\ pc' = [pc EXCEPT ![c] =
                   RunAt(IF pc[c].how = "return" THEN "returned" ELSE "thrown",
                         pc[c].opt, pc[c].n, pc[c].how)]

NextAnalyze ==
  \/ \E c \in SharedConns, t \in Targets \cup {""}, sec \in BOOLEAN : AnalyzeConnect(c, t, sec)
  \/ \E c \in SharedConns : AnalyzeQuery(c)
  \/ \E c \in SharedConns : AnalyzeFinally(c)
  \/ \E p \in PoolIds, kind \in {"other", "fatal"} : PoolError(p, kind)
  \/ \E s \in SessionIds : SessionLost(s)

SpecAnalyze == InitAnalyze /\ [][NextAnalyze]_vars

\* ------------------------------------------------------------------ claims
Events == last.log.events
At(E, k, q) == {i \in DOMAIN E : E[i].k = k /\ E[i].q = q}
Stmt(q) == At(Events, "stmt", q)
Before(I, J) == \A i \in I, j \in J : i < j

\* the callback of the last transaction threw / returned
CallbackRaised == last.op = "transaction" /\ \E i \in Stmt("callback") : Events[i].res # "ok"
CallbackReturned == last.op = "transaction" /\ \E i \in Stmt("callback") : Events[i].res = "ok"
Failed(q) == \E i \in Stmt(q) : Events[i].res # "ok"

\* C1: a transaction whose callback raised issued exactly one ROLLBACK and no
\* COMMIT, and what the caller gets is the 'Transaction failed' error that
\* carries the callback's error, not an error of the ROLLBACK
C1_CallbackErrorSurfaces ==
  CallbackRaised =>
    /\ Cardinality(Stmt("ROLLBACK")) = 1
    /\ Stmt("COMMIT") = {}
    /\ last.result = "TransactionFailed"
    /\ last.cause.src = "op"

\* C2: when the callback raised and the ROLLBACK failed too, the callback's
\* error is the one in lastError and the one thrown as 'Transaction failed'
C2_RollbackFailureKeepsOriginal ==
  (CallbackRaised /\ Failed("ROLLBACK")) =>
    /\ last.result = "TransactionFailed"
    /\ last.cause.src = "op"
    /\ lastError[last.conn] = last.cause

\* C3: after Pool P emitted a fatal error, P is not the cache entry of its
\* target, P is ended, and no other Pool was evicted or ended by the handler
C3_FatalErrorEvictsEmitter ==
  (last.op = "poolError" /\ IsFatal(last.cause)) =>
    /\ poolCache[last.target] # last.pool
    /\ pools[last.pool].state = "ended"
    /\ last.log.evicted \subseteq {last.pool}
    /\ last.log.ended \subseteq {last.pool}

\* C4: after a failed connect the Connection holds no session, every session
\* the call checked out was released, and a Pool the call created is out of
\* the cache and ended
C4_FailedConnectCleansUp ==
  (last.op = "connect" /\ last.result = "ConnectFailed") =>
    /\ client[last.conn] = 0
    /\ \A i \in At(Events, "checkout", "") :
         Events[i].s # 0 =>
           \E j \in At(Events, "release", "") : j > i /\ Events[j].s = Events[i].s
    /\ \A p \in last.log.newPools :
         poolCache[pools[p].target] # p /\ pools[p].state = "ended"

\* C5: a query that failed with a connection-terminated error threw 'Query
\* failed', left the Connection without a session, and its session did not
\* go back to the idle sessions of the Pool
C5_TerminatedQueryDiscardsSession ==
  (last.op = "query" /\ last.result = "QueryFailed" /\ IsTerminated(last.cause)) =>
    /\ client[last.conn] = 0
    /\ \A i \in At(Events, "release", "") : Events[i].res = "closed"

\* C6: when a query on the held session of a connected Connection failed with
\* a connection-terminated error, the query that follows on that Connection
\* makes exactly one checkout; the session it gets is not one whose transport
\* is closed, the statement timeout is set on it when configured, and the
\* query runs on it
C6_NextQueryUsesFreshSession ==
  [][(/\ last.op = "query" /\ last.result = "QueryFailed" /\ IsTerminated(last.cause)
      /\ At(Events, "checkout", "") = {}
      /\ pool[last.conn] # 0 /\ currentConnectionString[last.conn] # ""
      /\ last'.op = "query" /\ last'.conn = last.conn) =>
     LET E == last'.log.events
         co == At(E, "checkout", "")
     IN /\ Cardinality(co) = 1
        /\ \A i \in co :
             /\ E[i].res # "dead"
             /\ \A j \in At(E, "stmt", "query") :
                  /\ E[j].s = E[i].s
                  /\ connectionOptions[last.conn] =>
                       \E m \in At(E, "stmt", "SET statement_timeout") :
                         i < m /\ m < j /\ E[m].s = E[i].s /\ E[m].res = "ok"]_vars

\* C7 as claimed: a transaction whose callback returned issued one BEGIN, the
\* callback, one COMMIT, in that order, no ROLLBACK, and returned
C7_NormalCallbackCommitsAndReturns ==
  CallbackReturned =>
    /\ Cardinality(Stmt("BEGIN")) = 1 /\ Cardinality(Stmt("COMMIT")) = 1
    /\ Before(Stmt("BEGIN"), Stmt("callback"))
    /\ Before(Stmt("callback"), Stmt("COMMIT"))
    /\ Stmt("ROLLBACK") = {}
    /\ last.result = "ok"

\* C7 as amended: a transaction whose callback returned issued one BEGIN, the
\* callback, one COMMIT, in that order; when the COMMIT succeeded there was no
\* ROLLBACK and the call returned; when the COMMIT failed one ROLLBACK
\* followed it and the call threw
C7_NormalCallbackCommitsOnce ==
  CallbackReturned =>
    /\ Cardinality(Stmt("BEGIN")) = 1 /\ Cardinality(Stmt("COMMIT")) = 1
    /\ Before(Stmt("BEGIN"), Stmt("callback"))
    /\ Before(Stmt("callback"), Stmt("COMMIT"))
    /\ IF Failed("COMMIT")
         THEN /\ Cardinality(Stmt("ROLLBACK")) = 1
              /\ Before(Stmt("COMMIT"), Stmt("ROLLBACK"))
              /\ last.result \in {"TransactionFailed", "raw"}
         ELSE Stmt("ROLLBACK") = {} /\ last.result = "ok"

C7_Witness ==
  /\ CallbackReturned /\ last.result = "ok"
  /\ Cardinality(Stmt("COMMIT")) = 1 /\ ~Failed("COMMIT")

\* C8: a transaction that failed with a connection-terminated error from its
\* BEGIN, callback or COMMIT left the Connection without a session, also when
\* the ROLLBACK failed
C8_TerminatedTransactionClearsSession ==
  (/\ last.op = "transaction"
   /\ \E i \in Stmt("BEGIN") \cup Stmt("callback") \cup Stmt("COMMIT") :
        Events[i].res = "terminated") =>
    client[last.conn] = 0

\* C9: a connect to a target other than the one the held session was checked
\* out for releases that session, and does so before it checks a session out
C9_ConnectReleasesOldSession ==
  [][\A c \in DOMAIN client :
      (/\ last'.op = "connect" /\ last'.conn = c /\ last'.target # ""
       /\ client[c] # 0
       /\ pools[sessions[client[c]].pool].target # last'.target) =>
      LET E == last'.log.events
      IN \E i \in At(E, "release", "") :
           /\ E[i].s = client[c]
           /\ \A j \in At(E, "checkout", "") : E[j].res # "rejected" => i < j]_vars

\* C10: with no fatal pool error and no cleanupPools, each target has at most
\* one Pool ever created, that Pool is its cache entry, and every Connection
\* that has a Pool refers to the cache entry of that Pool's target
C10_OnePoolPerTarget ==
  LET Created == {p \in PoolIds : pools[p].state # "unused"}
  IN /\ \A t \in Targets : Cardinality({p \in Created : pools[p].target = t}) <= 1
     /\ \A p \in Created : poolCache[pools[p].target] = p
     /\ \A c \in DOMAIN pool : pool[c] # 0 => pool[c] = poolCache[pools[pool[c]].target]

\* two Connections hold sessions of the one Pool of "A", connected with
\* differing options, and the last connect found the Pool in the cache
C10_Witness ==
  /\ last.op = "connect" /\ last.result = "ok" /\ last.log.newPools = {}
  /\ \A c \in {1, 2} : client[c] # 0 /\ pool[c] = poolCache["A"]
  /\ connectionOptions[1] # connectionOptions[2]

C12_ConnectAppliesStatementTimeout ==
  (last.op = "connect" /\ last.result = "ok" /\ last.opt) =>
    \A i \in At(Events, "checkout", "") :
      \E m \in At(Events, "stmt", "SET statement_timeout") :
        i < m /\ Events[m].s = Events[i].s /\ Events[m].res = "ok"

\* C13: disconnect releases the held session if there is one, and only it,
\* leaves the Connection without session and without target, raises nothing,
\* and changes no Pool's state, no Connection's pool and no poolCache entry;
\* a disconnect that follows a disconnect on the same Connection releases
\* nothing and leaves the whole state as it was
C13_DisconnectReleasesAndClears ==
  [][\A c \in DOMAIN client :
      (last'.op = "disconnect" /\ last'.conn = c) =>
      LET E == last'.log.events
      IN /\ last'.result = "ok"
         /\ IF client[c] # 0
              THEN Len(E) = 1 /\ E[1].k = "release" /\ E[1].s = client[c]
              ELSE E = << >>
         /\ client' = [client EXCEPT ![c] = 0]
         /\ currentConnectionString' = [currentConnectionString EXCEPT ![c] = ""]
         /\ pool' = pool /\ poolCache' = poolCache
         /\ \A p \in PoolIds : pools'[p] = pools[p]
         /\ last'.log.ended = {} /\ last'.log.evicted = {} /\ last'.log.newPools = {}
         /\ (last.op = "disconnect" /\ last.conn = c) =>
              /\ E = << >>
              /\ sessions' = sessions /\ client' = client
              /\ currentConnectionString' = currentConnectionString
              /\ connectionOptions' = connectionOptions /\ lastError' = lastError]_vars

\* a disconnect handed the held session back to its Pool, which is open and
\* still the cache entry of its target
C13_Witness ==
  /\ last.op = "disconnect" /\ Len(Events) = 1 /\ Events[1].res = "idle"
  /\ client[last.conn] = 0 /\ currentConnectionString[last.conn] = ""
  /\ pool[last.conn] # 0 /\ pools[pool[last.conn]].state = "open"
  /\ poolCache[pools[pool[last.conn]].target] = pool[last.conn]

\* C14: cleanupPools ends every cached Pool that can be ended and removes it
\* from the cache, whatever happens with the others; when the pool.end() of a
\* cached Pool fails (the Pool was ended before), the call reports a failure
\* to its caller
C14_CleanupReportsFailure ==
  [][(last'.op = "cleanupPools") =>
      LET Cached == {t \in Targets : poolCache[t] # 0}
          Fails == {t \in Cached : pools[poolCache[t]].state = "ended"}
      IN /\ \A t \in Cached \ Fails :
              poolCache'[t] = 0 /\ pools'[poolCache[t]].state = "ended"
         /\ Fails # {} => last'.result # "ok"]_vars

\* C15: connect(T) on a Connection that has a Pool, has T as its target and
\* holds a session whose transport is open returns without a checkout, a
\* release or a statement, creates no Pool, and leaves the Connection's pool,
\* session, target and options, the Pools, the sessions and the poolCache
\* unchanged
C15_ConnectSameTargetIsNoOp ==
  [][\A c \in DOMAIN client :
      (/\ last'.op = "connect" /\ last'.conn = c
       /\ pool[c] # 0 /\ currentConnectionString[c] = last'.target
       /\ client[c] # 0 /\ ~Ended(World, client[c])) =>
      (/\ last'.result = "ok"
       /\ last'.log = EmptyLog
       /\ pool' = pool /\ client' = client
       /\ currentConnectionString' = currentConnectionString
       /\ connectionOptions' = connectionOptions
       /\ poolCache' = poolCache /\ pools' = pools /\ sessions' = sessions)]_vars

\* a connect with a statementTimeout returned having done nothing on a
\* Connection that was connected without one
C15_Witness ==
  /\ last.op = "connect" /\ last.result = "ok" /\ last.target # ""
  /\ last.log = EmptyLog /\ last.opt /\ ~connectionOptions[last.conn]
  /\ client[last.conn] # 0 /\ ~sessions[client[last.conn]].dead

\* C16: a Connection that holds a session has a Pool and a non-empty target
C16_SessionImpliesPoolAndTarget ==
  \A c \in DOMAIN client :
    client[c] # 0 => pool[c] # 0 /\ currentConnectionString[c] # ""

\* C17: when the fatal-error handler has evicted and closed the Pool of a
\* Connection that held a session, and a query on that session has failed
\* with a connection-terminated error, the next query on the Connection checks
\* a session out of a Pool it creates for the Connection's target, and that
\* Pool is then the cache entry of the target
C17_QuerySelfHealsAfterEviction ==
  [][\A c \in DOMAIN client :
      (/\ last.op = "query" /\ last.conn = c
       /\ last.result = "QueryFailed" /\ IsTerminated(last.cause)
       /\ At(Events, "checkout", "") = {}
       /\ pool[c] = 0 /\ currentConnectionString[c] # ""
       /\ last'.op = "query" /\ last'.conn = c) =>
      LET E == last'.log.events
      IN /\ last'.log.newPools # {}
         /\ poolCache'[currentConnectionString[c]] \in last'.log.newPools
         /\ pool'[c] \in last'.log.newPools
         /\ \E i \in At(E, "checkout", "") : E[i].res # "rejected"]_vars

\* C18: every session that is checked out of a Pool is the session held by
\* exactly one Connection
C18_NoSessionLeaked ==
  \A s \in SessionIds :
    sessions[s].st = "out" => Cardinality({c \in DOMAIN client : client[c] = s}) = 1

\* C19: while two Connections' connect calls to the uncached target "A" run
\* interleaved, at most one Pool is ever created for "A", and every
\* Connection whose call has passed the cache lookup refers to that Pool,
\* which is the cache entry of "A"
C19_ConcurrentConnectsShareOnePool ==
  LET ForT == {p \in PoolIds : pools[p].state # "unused" /\ pools[p].target = ConcTarget}
  IN /\ Cardinality(ForT) <= 1
     /\ \A c \in DOMAIN pc :
          pc[c].at \in {"checkout", "set", "probe", "done", "failed"} =>
            /\ pool[c] \in ForT
            /\ poolCache[ConcTarget] = pool[c]

\* both calls are in progress at once, each waiting for its checkout, both
\* on the one Pool of "A"; a Connection that was connected to "B" has waited
\* for its disconnect before it looked "A" up
C19_Witness ==
  /\ \A c \in {1, 2} : pc[c].at = "checkout"
  /\ pool[1] = pool[2] /\ poolCache[ConcTarget] = pool[1]
  /\ poolCache["B"] # 0

\* C20: a pool error that is not fatal sets lastError of the Connection that
\* created the Pool and nothing else of the program: the poolCache, every
\* Pool's state, and every Connection's pool, session, target and options
\* stay as they were
C20_NonFatalPoolErrorOnlyRecords ==
  [][(last'.op = "poolError" /\ ~IsFatal(last'.cause)) =>
      (/\ lastError' = [lastError EXCEPT ![last'.conn] = last'.cause]
       /\ poolCache' = poolCache /\ pools' = pools
       /\ pool' = pool /\ client' = client
       /\ currentConnectionString' = currentConnectionString
       /\ connectionOptions' = connectionOptions
       /\ last'.log.evicted = {} /\ last'.log.ended = {})]_vars

\* a Pool that is cached has emitted a non-fatal error while its creator,
\* connected elsewhere, holds a session
C20_Witness ==
  /\ last.op = "poolError" /\ ~IsFatal(last.cause)
  /\ lastError[last.conn] = last.cause
  /\ poolCache[last.target] = last.pool /\ pools[last.pool].state = "open"
  /\ client[last.conn] # 0 /\ pool[last.conn] # 0

\* C21: a run of analyzeDatabaseLogic that has ended, by returning or by
\* throwing, has left its DatabaseConnection without a session, and every
\* session that is checked out of a Pool is held by the Connection of a run
\* that has not ended
C21_AnalysisReleasesItsSessions ==
  /\ \A c \in DOMAIN pc : pc[c].at \in {"returned", "thrown"} => client[c] = 0
  /\ \A s \in SessionIds :
       sessions[s].st = "out" =>
         \E c \in DOMAIN pc : client[c] = s /\ pc[c].at \in {"query", "finally"}

\* a run has just ended because its connect failed after the checkout (its
\* session was released by connect itself), and another run has returned
C21_Witness ==
  /\ last.op = "connect" /\ last.result = "ConnectFailed"
  /\ pc[last.conn].at = "thrown" /\ pc[last.conn].how = "connect"
  /\ \E i \in At(Events, "checkout", "") : Events[i].res # "rejected"
  /\ At(Events, "release", "") # {}
  /\ \E d \in DOMAIN pc : pc[d].at = "returned" /\ pc[d].how = "return"

\* C22: a query that failed with an error that is not connection-terminated
\* ran its statement once, threw 'Query failed', set lastError, and left the
\* Connection holding the session it ran on (the one it held before, when it
\* held one) with its pool and target and the poolCache unchanged; the query
\* that follows on the Connection makes no checkout and runs on that session
C22_OrdinaryQueryErrorKeepsSession ==
  [][\A c \in DOMAIN client :
      /\ (/\ last'.op = "query" /\ last'.conn = c
          /\ last'.result = "QueryFailed" /\ ~IsTerminated(last'.cause)) =>
         LET E == last'.log.events
             run == At(E, "stmt", "query")
         IN /\ Cardinality(run) = 1
            /\ \A i \in run : client'[c] = E[i].s /\ E[i].res # "ok"
            /\ client[c] # 0 => client'[c] = client[c] /\ Len(E) = 1
            /\ At(E, "release", "") = {}
            /\ lastError'[c] = last'.cause
            /\ pool' = pool /\ poolCache' = poolCache /\ pools' = pools
            /\ currentConnectionString' = currentConnectionString
      /\ (/\ last.op = "query" /\ last.conn = c
          /\ last.result = "QueryFailed" /\ ~IsTerminated(last.cause)
          /\ last'.op = "query" /\ last'.conn = c) =>
         LET E == last'.log.events
         IN /\ At(E, "checkout", "") = {}
            /\ Cardinality(At(E, "stmt", "query")) = 1
            /\ \A i \in DOMAIN E : E[i].k = "stmt" => E[i].s = client[c]]_vars

\* a query on the held session has failed with an ordinary error, and the
\* Connection still holds that session
C22_Witness ==
  /\ last.op = "query" /\ last.result = "QueryFailed" /\ ~IsTerminated(last.cause)
  /\ Len(Events) = 1 /\ Events[1].k = "stmt" /\ Events[1].res = "other"
  /\ client[last.conn] = Events[1].s
  /\ lastError[last.conn] = last.cause
====
